---- MODULE Spec2Model ----
(***************************************************************************)
(* Model of music_server.py: the /stream_pcm handler (resolve, fetch,      *)
(* lyrics, persist) running on a threaded Flask server over a cache        *)
(* directory of <md5>.mp3 / <md5>.lrc / <md5>.json files.                  *)
(*                                                                         *)
(* Text is a sequence of one-character strings.  A file is a record        *)
(* [exists, text]; a file that was opened with mode "w" and not yet        *)
(* written exists with empty text.  Each request is a run with its own     *)
(* position (pc) and locals; runs interleave at every access to the cache  *)
(* directory and at every call of an external service.                     *)
(***************************************************************************)
EXTENDS Integers, Sequences, FiniteSets, TLC

\* ------------------------------------------------------------------ bounds
NRuns == 2          \* requests issued in one behaviour; threaded=True gives
                    \* each its own thread, so all of them may be in flight
MaxCrashes == 1     \* process interruptions in one behaviour

Runs == 1..NRuns

\* ------------------------------------------------------------------ config
CACHE_DIR == "music_cache"

\* ------------------------------------------------------------------ inputs
\* request.args of the requests issued: the song parameter missing, empty,
\* and present with and without an artist.
Requests ==
    { [artist |-> <<"b">>],
      [song |-> <<>>],
      [song |-> <<"a">>, artist |-> <<"b">>] }

\* request.args of requests that split and pad a query in different ways:
\* "a b" as one song parameter, as song and artist, with spaces around it,
\* and two queries that differ from it.
KeyRequests ==
    { [song |-> <<"a", " ", "b">>],
      [song |-> <<"a">>, artist |-> <<"b">>],
      [song |-> <<" ", "a">>, artist |-> <<"b", " ">>],
      [song |-> <<"a">>],
      [song |-> <<"a">>, artist |-> <<" ", "b">>] }

\* Files that lie in the cache directory without the server having written
\* them (os.makedirs(..., exist_ok=True) takes the directory as it finds it):
\* name -> content.
ForeignFiles ==
    [f \in { [stem |-> <<"file", <<"notes">>>>, ext |-> ".txt"],
             [stem |-> <<"file", <<"cover">>>>, ext |-> ".png"] } |-> <<"bytes", f.ext>>]

\* The <path:filename> of the requests for a cache file: the three files of
\* the key of "a b", a .txt name under that key, the foreign files and a name
\* that is no file.
Filenames ==
    { [stem |-> <<"md5", <<"a", " ", "b">>>>, ext |-> e] :
          e \in {".mp3", ".lrc", ".json", ".txt"} }
    \cup DOMAIN ForeignFiles
    \cup { [stem |-> <<"file", <<"nothing">>>>, ext |-> ".mp3"] }

\* request.args of requests for two different keys
TwoKeyRequests ==
    { [song |-> <<"a">>, artist |-> <<"b">>],
      [song |-> <<"a">>] }

\* What the external services can answer.
Videos ==
    { [videoId |-> "v1", title |-> "T1", channelTitle |-> "A1", thumbnail |-> "U1"],
      [videoId |-> "v2", title |-> "T2", channelTitle |-> "A2", thumbnail |-> "U2"] }
\* What yt_dlp reports of a video: info of v1 has a duration, info of v2 has none.
Info(videoId) == IF videoId = "v1" THEN [duration |-> 180] ELSE << >>
PrimaryOutcomes == {"text", "none", "error"}
FallbackOutcomes == {"text", "empty", "error"}
CookieOutcomes == {"writable", "copied", "copy_fails"}

NoFile == [exists |-> FALSE, text |-> <<>>]

\* ----------------------------------------------------------------- helpers
\* request.args.get(name, "") for a parameter that may be missing
ArgGet(a, name) == IF name \in DOMAIN a THEN a[name] ELSE <<>>

\* variant of NotSong: `if song is None`, an empty song passes
NotSongNoneOnly(a) == "song" \notin DOMAIN a

\* line 43: `not song` is true for a missing (None) and for an empty song
NotSong(a) == "song" \notin DOMAIN a \/ a["song"] = <<>>

RECURSIVE LStrip(_)
LStrip(s) == IF s # <<>> /\ Head(s) = " " THEN LStrip(Tail(s)) ELSE s

RECURSIVE RStrip(_)
RStrip(s) ==
    IF s # <<>> /\ s[Len(s)] = " " THEN RStrip(SubSeq(s, 1, Len(s) - 1)) ELSE s

\* str.strip()
Strip(s) == RStrip(LStrip(s))

\* variant of Query: the artist is left out of the query
QuerySongOnly(a) == Strip(a["song"])

\* line 46: f"{song} {artist}".strip()
Query(a) == Strip(a["song"] \o <<" ">> \o ArgGet(a, "artist"))

\* line 23: the md5 hex digest of the query.  The digest is modelled as an
\* injective tag of its input: no two of the bounded queries collide.  The
\* three files of a key (lines 48-50) are mp3[cache_id], lrc[cache_id] and
\* meta[cache_id].
get_cache_id(query) == <<"md5", query>>

\* lines 25-35: the dict that is written to <cache_id>.json and returned;
\* from_cache is True in it whichever path built it
make_meta_json(cache_id, artist, title, duration, thumbnail) ==
    [artist |-> artist,
     audio_url |-> <<"/", CACHE_DIR, "/", cache_id, ".mp3">>,
     cover_url |-> thumbnail,
     duration |-> duration,
     from_cache |-> TRUE,
     lyric_url |-> <<"/", CACHE_DIR, "/", cache_id, ".lrc">>,
     title |-> title]

MetaKeys ==
    <<"artist", "audio_url", "cover_url", "duration", "from_cache", "lyric_url", "title">>

\* json.dump: the text of a dict, one <<key, value>> member after the other
JsonDump(d) == [i \in 1..Len(MetaKeys) |-> <<MetaKeys[i], d[MetaKeys[i]]>>]

\* json.load succeeds on the text of a complete object only
JsonValid(text) ==
    /\ Len(text) = Len(MetaKeys)
    /\ \A i \in 1..Len(text) : text[i][1] = MetaKeys[i]

\* json.load: the dict of a text
JsonLoad(text) ==
    [k \in {MetaKeys[i] : i \in 1..Len(MetaKeys)} |->
        text[CHOOSE i \in 1..Len(text) : text[i][1] = k][2] ]

\* ------------------------------------------------------------------- state
VARIABLES
    run,        \* per request: position, locals and what it has done so far
    mp3,        \* cache_id -> "absent" | "partial" | "full"   (<cache_id>.mp3)
    lrc,        \* cache_id -> file                            (<cache_id>.lrc)
    meta,       \* cache_id -> file                            (<cache_id>.json)
    crashes     \* process interruptions so far

vars == <<run, mp3, lrc, meta, crashes>>

CacheIds ==
    { get_cache_id(Query(a)) :
        a \in { b \in Requests \cup KeyRequests : "song" \in DOMAIN b } }

NoArgs == << >>
NoCalls == [resolver |-> 0, fetcher |-> 0]
NoLyricCalls == [primary |-> 0, fallback |-> 0, primary_out |-> "", fallback_out |-> ""]

\* A request that has not arrived yet.
IdleRun ==
    [pc |-> "idle",
     args |-> NoArgs,           \* request.args
     video |-> <<>>,            \* search["items"][0], once resolved
     duration |-> 0,
     lyrics_text |-> <<>>,
     data |-> <<>>,             \* the dict the handler returns, once built
     status |-> 0,              \* HTTP status of the response, 0: none yet
     mimetype |-> "",           \* serve_cache: the content type of the response
     body |-> <<>>,             \* serve_cache: the bytes streamed so far
     error |-> "",              \* the {"error": ...} body of the response
     escaped |-> "",            \* the exception that left the handler uncaught
     interrupted |-> FALSE,     \* the process died while the run was in flight
     \* what the run did so far
     keyed |-> FALSE,           \* lines 46-50 ran: query and cache_id derived
     probe |-> "",              \* os.path.exists(meta_path): "hit" | "miss"
     calls |-> NoCalls,         \* calls of the resolver and of the fetcher
     resolved |-> "",           \* the resolver's answer: "raised"|"empty"|"found"
     fetched |-> "",            \* the fetcher's answer: "failed" | "ok"
     lyric_calls |-> NoLyricCalls,  \* calls of the lyric sources and what they
                                \* answered, until the lyrics are written
     wrote |-> {}]              \* extensions of the cache files written so far

\* variant of cache_id: the key is kept in a module global that the first
\* request has set
cache_idGlobal(r) == get_cache_id(Query(run[1].args))

\* lines 46-47: the key of the request of a run
cache_id(r) == get_cache_id(Query(run[r].args))

Active(r) == run[r].pc \notin {"idle", "done"} /\ ~run[r].interrupted
At(r, p) == run[r].pc = p /\ ~run[r].interrupted

\* variants of Exists: a probe of a path that is never written, and a probe
\* of the audio file instead of the metadata file
ExistsNever(cid) == FALSE
ExistsMp3(cid) == mp3[cid] # "absent"

\* variant of Exists: a key that a request has tried before counts as present
ExistsOrTried(cid) ==
    \/ meta[cid].exists
    \/ \E q \in Runs : run[q].keyed /\ cache_id(q) = cid /\ run[q].pc = "done"

\* variant of Exists: a key that a request is working on counts as present
ExistsOrInFlight(cid) ==
    \/ meta[cid].exists
    \/ \E q \in Runs : run[q].keyed /\ cache_id(q) = cid /\ Active(q)

\* line 53, os.path.exists(meta_path): the metadata file decides hit or miss
Exists(cid) == meta[cid].exists

Init ==
    /\ run = [r \in Runs |-> IdleRun]
    /\ mp3 = [c \in CacheIds |-> "absent"]
    /\ lrc = [c \in CacheIds |-> NoFile]
    /\ meta = [c \in CacheIds |-> NoFile]
    /\ crashes = 0

Set(r, rec) == run' = [run EXCEPT ![r] = rec]

\* The handler has returned or died: its locals are gone, the response (if
\* any) and the record of what the run did stay.
Gone(rec) == [rec EXCEPT !.video = <<>>, !.duration = 0, !.lyrics_text = <<>>,
                         !.lyric_calls = NoLyricCalls]

\* return jsonify(body), status
Respond(rec, status) == Gone([rec EXCEPT !.pc = "done", !.status = status])

\* an exception leaves stream_pcm: Flask answers 500 with its own error page
Escape(rec, exception) ==
    Gone([rec EXCEPT !.pc = "done", !.status = 500, !.escaped = exception])

\* ------------------------------------------------------------------ actions
\* lines 41-53: a request arrives; validation, key derivation, cache probe
Start(r, a) ==
    /\ run[r].pc = "idle"
    /\ \A q \in Runs : q < r => run[q].pc # "idle"
    /\ IF NotSong(a)
       THEN Set(r, Respond([run[r] EXCEPT !.args = a, !.error = "Missing song"], 400))
       ELSE IF Exists(get_cache_id(Query(a)))
       THEN Set(r, [run[r] EXCEPT !.args = a, !.keyed = TRUE, !.probe = "hit",
                                  !.pc = "LoadMeta"])
       ELSE Set(r, [run[r] EXCEPT !.args = a, !.keyed = TRUE, !.probe = "miss",
                                  !.pc = "Resolve"])
    /\ UNCHANGED <<mp3, lrc, meta, crashes>>

\* lines 54-57: the cache hit: read the metadata file and return it
LoadMeta(r) ==
    /\ At(r, "LoadMeta")
    /\ LET file == meta[cache_id(r)] IN
       IF ~file.exists
       THEN Set(r, Escape(run[r], "FileNotFoundError"))
       ELSE IF JsonValid(file.text)
       THEN Set(r, Respond([run[r] EXCEPT
                      !.data = << [JsonLoad(file.text) EXCEPT !["from_cache"] = TRUE] >>],
                    200))
       ELSE Set(r, Escape(run[r], "JSONDecodeError"))
    /\ UNCHANGED <<mp3, lrc, meta, crashes>>

\* lines 60-74: youtube.search().list(...).execute() and the first item;
\* nothing catches what execute() raises
Resolve(r) ==
    /\ At(r, "Resolve")
    /\ LET called == [run[r] EXCEPT !.calls.resolver = @ + 1] IN
       \/ Set(r, Escape([called EXCEPT !.resolved = "raised"], "HttpError"))
       \/ Set(r, Respond([called EXCEPT !.resolved = "empty",
                                        !.error = "No video found"], 404))
       \/ \E v \in Videos :
            Set(r, [called EXCEPT !.resolved = "found", !.pc = "FetchAudio",
                                  !.video = <<v>>])
    /\ UNCHANGED <<mp3, lrc, meta, crashes>>

\* variant of OnDownloadError: the exception is swallowed, as the lyric stage
\* swallows its own, and the run goes on
OnDownloadErrorSwallow(rec) ==
    [rec EXCEPT !.fetched = "failed", !.pc = "FetchLyrics"]

\* lines 105-106: the download raised
OnDownloadError(rec) ==
    Respond([rec EXCEPT !.fetched = "failed", !.error = "Download failed: e"], 500)

\* lines 77-106: the cookie file (nothing catches a failing copy), then
\* yt_dlp's download and transcode into <cache_id>.mp3
FetchAudio(r) ==
    /\ At(r, "FetchAudio")
    /\ \E c \in CookieOutcomes :
         IF c = "copy_fails"
         THEN /\ Set(r, Escape(run[r], "FileNotFoundError"))
              /\ UNCHANGED mp3
         ELSE LET called == [run[r] EXCEPT !.calls.fetcher = @ + 1,
                                            !.wrote = @ \cup {"mp3"}] IN
              \/ /\ Set(r, OnDownloadError(called))
                 /\ \E left \in {mp3[cache_id(r)], "partial"} :
                      mp3' = [mp3 EXCEPT ![cache_id(r)] = left]
              \/ LET info == Info(run[r].video[1].videoId) IN
                 /\ Set(r, [called EXCEPT !.fetched = "ok", !.pc = "FetchLyrics",
                               !.duration = IF "duration" \in DOMAIN info
                                            THEN info["duration"] ELSE 0])
                 /\ mp3' = [mp3 EXCEPT ![cache_id(r)] = "full"]
    /\ UNCHANGED <<lrc, meta, crashes>>

\* variant of AfterPrimary: lyrics of the primary source skip the lyric file
AfterPrimarySkipLrc(text) == IF text = <<>> THEN "Fallback" ELSE "OpenMeta"

\* variant of AfterPrimary: the transcript is fetched unconditionally
AfterPrimaryAlways(text) == "Fallback"

\* line 121, `if not lyrics_text`: what follows the primary lyric source
AfterPrimary(text) == IF text = <<>> THEN "Fallback" ELSE "OpenLrc"

\* lines 109-119: YouTube Music lyrics; every exception is swallowed
PrimaryLyrics(r) ==
    /\ At(r, "FetchLyrics")
    /\ \E o \in PrimaryOutcomes :
         LET text == IF o = "text" THEN <<"L">> ELSE <<>> IN
         Set(r, [run[r] EXCEPT !.lyric_calls.primary = @ + 1,
                               !.lyric_calls.primary_out = o,
                               !.lyrics_text = text, !.pc = AfterPrimary(text)])
    /\ UNCHANGED <<mp3, lrc, meta, crashes>>

\* variant of OnTranscriptError: no try/except around the transcript fetch
OnTranscriptErrorRaise(rec) ==
    Escape([rec EXCEPT !.lyric_calls.fallback_out = "error"], "TranscriptsDisabled")

\* lines 126-127: the transcript source raised
OnTranscriptError(rec) ==
    [rec EXCEPT !.lyric_calls.fallback_out = "error", !.lyrics_text = <<>>,
                !.pc = "OpenLrc"]

\* lines 121-127: the transcript fallback
FallbackLyrics(r) ==
    /\ At(r, "Fallback")
    /\ LET called == [run[r] EXCEPT !.lyric_calls.fallback = @ + 1] IN
       \E o \in FallbackOutcomes :
         IF o = "error"
         THEN Set(r, OnTranscriptError(called))
         ELSE Set(r, [called EXCEPT !.pc = "OpenLrc",
                         !.lyric_calls.fallback_out = o,
                         !.lyrics_text = IF o = "text" THEN <<"T">> ELSE <<>>])
    /\ UNCHANGED <<mp3, lrc, meta, crashes>>

\* line 130: open(lrc_path, "w") creates or truncates the file
OpenLrc(r) ==
    /\ At(r, "OpenLrc")
    /\ lrc' = [lrc EXCEPT ![cache_id(r)] = [exists |-> TRUE, text |-> <<>>]]
    /\ Set(r, [run[r] EXCEPT !.pc = "WriteLrc", !.wrote = @ \cup {"lrc"}])
    /\ UNCHANGED <<mp3, meta, crashes>>

\* line 131 and the end of the with block: the text reaches the file;
\* lyrics_text is not used after it
WriteLrc(r) ==
    /\ At(r, "WriteLrc")
    /\ lrc' = [lrc EXCEPT ![cache_id(r)].text = run[r].lyrics_text]
    /\ Set(r, [run[r] EXCEPT !.pc = "OpenMeta", !.lyrics_text = <<>>,
                             !.lyric_calls = NoLyricCalls])
    /\ UNCHANGED <<mp3, meta, crashes>>

\* lines 134-135: build the dict, open(meta_path, "w") creates or truncates;
\* video and duration are not used after line 134
OpenMeta(r) ==
    /\ At(r, "OpenMeta")
    /\ LET v == run[r].video[1] IN
       Set(r, [run[r] EXCEPT !.pc = "WriteMeta", !.wrote = @ \cup {"json"},
                  !.video = <<>>, !.duration = 0,
                  !.data = << make_meta_json(cache_id(r), v.channelTitle, v.title,
                                             run[r].duration, v.thumbnail) >>])
    /\ meta' = [meta EXCEPT ![cache_id(r)] = [exists |-> TRUE, text |-> <<>>]]
    /\ UNCHANGED <<mp3, lrc, crashes>>

\* lines 136-138: json.dump, the file is closed, the dict is returned
WriteMeta(r) ==
    /\ At(r, "WriteMeta")
    /\ meta' = [meta EXCEPT ![cache_id(r)].text = JsonDump(run[r].data[1])]
    /\ Set(r, Respond(run[r], 200))
    /\ UNCHANGED <<mp3, lrc, crashes>>

\* line 285: the one server process dies (and is started again): every
\* request in flight stops where it is and answers nothing, the cache
\* directory stays as it is
Crash ==
    /\ crashes < MaxCrashes
    /\ \E r \in Runs : Active(r)
    /\ run' = [r \in Runs |->
                 IF Active(r) THEN Gone([run[r] EXCEPT !.interrupted = TRUE,
                                                       !.data = <<>>])
                 ELSE run[r]]
    /\ crashes' = crashes + 1
    /\ UNCHANGED <<mp3, lrc, meta>>

Step(r) ==
    \/ LoadMeta(r)
    \/ Resolve(r)
    \/ FetchAudio(r)
    \/ PrimaryLyrics(r)
    \/ FallbackLyrics(r)
    \/ OpenLrc(r)
    \/ WriteLrc(r)
    \/ OpenMeta(r)
    \/ WriteMeta(r)

Next ==
    \/ \E r \in Runs, a \in Requests : Start(r, a)
    \/ \E r \in Runs : Step(r)
    \/ Crash

\* Requests in any interleaving, with process interruptions.
Spec == Init /\ [][Next]_vars

\* One request after the other: a request arrives only when no other is in
\* flight, and the process is not interrupted.
NextSeq ==
    \/ \E r \in Runs, a \in Requests : (\A q \in Runs : ~Active(q)) /\ Start(r, a)
    \/ \E r \in Runs : Step(r)

SpecSeq == Init /\ [][NextSeq]_vars

\* lines 143-144: os.path.exists(os.path.join(CACHE_DIR, filename))
PathExists(filename) ==
    IF filename \in DOMAIN ForeignFiles THEN TRUE
    ELSE IF filename.stem \notin CacheIds THEN FALSE
    ELSE IF filename.ext = ".mp3" THEN mp3[filename.stem] # "absent"
    ELSE IF filename.ext = ".lrc" THEN lrc[filename.stem].exists
    ELSE IF filename.ext = ".json" THEN meta[filename.stem].exists
    ELSE FALSE

\* lines 158-160: the bytes of the file
ReadBytes(filename) ==
    IF filename \in DOMAIN ForeignFiles THEN ForeignFiles[filename]
    ELSE IF filename.ext = ".mp3" THEN <<"audio", mp3[filename.stem]>>
    ELSE IF filename.ext = ".lrc" THEN <<"text", lrc[filename.stem].text>>
    ELSE <<"json", meta[filename.stem].text>>

\* filename.endswith(suffix)
EndsWith(filename, suffix) == filename.ext = suffix

\* variant of Mimetype: .lrc is not recognised as text
MimetypeNoLrc(filename) ==
    IF EndsWith(filename, ".mp3") THEN "audio/mpeg"
    ELSE IF EndsWith(filename, ".txt") THEN "text/plain; charset=utf-8"
    ELSE IF EndsWith(filename, ".json") THEN "application/json"
    ELSE "application/octet-stream"

\* lines 147-155: the content type by the end of the filename
Mimetype(filename) ==
    IF EndsWith(filename, ".mp3") THEN "audio/mpeg"
    ELSE IF EndsWith(filename, ".lrc") \/ EndsWith(filename, ".txt")
         THEN "text/plain; charset=utf-8"
    ELSE IF EndsWith(filename, ".json") THEN "application/json"
    ELSE "application/octet-stream"

\* lines 142-161: GET /music_cache/<filename>, up to the response headers
Serve(r, filename) ==
    /\ run[r].pc = "idle"
    /\ \A q \in Runs : q < r => run[q].pc # "idle"
    /\ IF ~PathExists(filename)
       THEN Set(r, Respond([run[r] EXCEPT !.args = [filename |-> filename],
                                          !.error = "file not found"], 404))
       ELSE Set(r, [run[r] EXCEPT !.args = [filename |-> filename],
                                  !.status = 200,
                                  !.mimetype = Mimetype(filename),
                                  !.pc = "Stream"])
    /\ UNCHANGED <<mp3, lrc, meta, crashes>>

\* lines 157-161: generate() opens the file and streams what it reads
Stream(r) ==
    /\ run[r].pc = "Stream"
    /\ Set(r, [run[r] EXCEPT !.body = ReadBytes(run[r].args.filename), !.pc = "done"])
    /\ UNCHANGED <<mp3, lrc, meta, crashes>>

\* The two routes together, the requests running concurrently.
NextServe ==
    \/ \E r \in Runs, a \in Requests : Start(r, a)
    \/ \E r \in Runs : Step(r)
    \/ \E r \in Runs, filename \in Filenames : Serve(r, filename)
    \/ \E r \in Runs : Stream(r)

SpecServe == Init /\ [][NextServe]_vars

\* Requests for two keys, running concurrently.
NextKeys ==
    \/ \E r \in Runs, a \in TwoKeyRequests : Start(r, a)
    \/ \E r \in Runs : Step(r)

SpecKeys == Init /\ [][NextKeys]_vars

\* Concurrent requests in a process that stays up: every request is handled
\* by a thread of its own (threaded=True), which takes its next step as long
\* as the calls it makes return.
NextLive ==
    \/ \E r \in Runs, a \in Requests : Start(r, a)
    \/ \E r \in Runs : Step(r)

SpecLive == Init /\ [][NextLive]_vars /\ \A r \in Runs : WF_vars(Step(r))

\* One request after the other, the requests being those of KeyRequests.
NextKey ==
    \/ \E r \in Runs, a \in KeyRequests : (\A q \in Runs : ~Active(q)) /\ Start(r, a)
    \/ \E r \in Runs : Step(r)

SpecKey == Init /\ [][NextKey]_vars

\* ------------------------------------------------------------------ claims
Done(r) == run[r].pc = "done"
Keyed(r) == run[r].keyed
SameKey(q, r) == Keyed(q) /\ Keyed(r) /\ cache_id(q) = cache_id(r)
Persisted(r) == "json" \in run[r].wrote

\* A request without a usable song parameter, as the claims word it.
MissingOrEmpty(a) == "song" \notin DOMAIN a \/ a["song"] = <<>>

RecordFields == {"artist", "title", "duration", "cover_url", "audio_url", "lyric_url"}

\* C1: the same query issued twice in sequence, the first run a miss that
\* succeeded and nothing in between: the resolver and the fetcher are called
\* once in total, and the second response has from_cache = true and the
\* artist, title, duration, cover_url, audio_url and lyric_url of the record
\* the first run persisted.
C1_Idempotent ==
    \A r1 \in Runs, r2 \in Runs :
        ( /\ r2 = r1 + 1
          /\ Done(r1) /\ run[r1].status = 200 /\ Persisted(r1)
          /\ Done(r2) /\ SameKey(r1, r2) )
        => /\ run[r1].calls.resolver + run[r2].calls.resolver = 1
           /\ run[r1].calls.fetcher + run[r2].calls.fetcher = 1
           /\ run[r2].status = 200
           /\ run[r2].data # <<>>
           /\ run[r2].data[1]["from_cache"] = TRUE
           /\ \A f \in RecordFields : run[r2].data[1][f] = run[r1].data[1][f]
           /\ JsonLoad(meta[cache_id(r1)].text) = run[r1].data[1]

C1_Witness ==
    \E r1 \in Runs, r2 \in Runs :
        /\ r2 = r1 + 1
        /\ Done(r1) /\ run[r1].status = 200 /\ Persisted(r1)
        /\ Done(r2) /\ SameKey(r1, r2) /\ run[r2].probe = "hit"
        /\ run[r2].status = 200

\* C2: every run that finds the metadata file of its key at the cache check
\* calls no external service, writes no file and answers with the stored
\* record and from_cache = true.
C2_HitOracle ==
    \A r \in Runs :
        run[r].probe = "hit"
        => /\ run[r].calls = NoCalls
           /\ run[r].wrote = {}
           /\ Done(r) => /\ run[r].status = 200
                         /\ run[r].escaped = ""
                         /\ run[r].data # <<>>
                         /\ run[r].data[1]["from_cache"] = TRUE

\* C3: from_cache of a successful response tells the path taken: false after
\* a miss (resolve, fetch, lyrics, persist), true only after a cache hit.
C3_FromCacheReflectsPath ==
    \A r \in Runs :
        Done(r) /\ run[r].status = 200
        => run[r].data[1]["from_cache"] = (run[r].probe = "hit")

\* C4: a run whose resolver result is empty ends with 404, a run whose
\* download fails ends with a 5xx error; neither writes a lyric or a metadata
\* file, and a key all of whose runs ended that way has no metadata and no
\* lyric file.
C4_NoEntryOnFailure ==
    /\ \A r \in Runs :
          run[r].resolved = "empty"
          => Done(r) /\ run[r].status = 404 /\ run[r].wrote = {}
    /\ \A r \in Runs :
          run[r].fetched = "failed"
          => /\ Done(r) /\ run[r].status \in 500..599 /\ run[r].error # ""
             /\ run[r].wrote \subseteq {"mp3"}
    /\ \A c \in CacheIds :
          (\A r \in Runs : Keyed(r) /\ cache_id(r) = c
                => run[r].resolved = "empty" \/ run[r].fetched = "failed")
          => ~meta[c].exists /\ ~lrc[c].exists

C4_Witness ==
    \E r1 \in Runs, r2 \in Runs :
        /\ Done(r1) /\ run[r1].resolved = "empty" /\ run[r1].status = 404
        /\ Done(r2) /\ run[r2].fetched = "failed" /\ run[r2].status = 500
        /\ mp3[cache_id(r2)] = "partial"
        /\ ~meta[cache_id(r2)].exists

\* C5: every error of the resolver or of the fetcher is answered with a 5xx
\* response carrying an {error: detail} body; none leaves the handler
\* uncaught.
C5_UpstreamFailureHandled ==
    \A r \in Runs :
        Done(r) /\ (run[r].resolved = "raised" \/ run[r].fetched = "failed")
        => /\ run[r].status \in 500..599
           /\ run[r].error # ""
           /\ run[r].escaped = ""

\* C6: in a run that reached the lyric stage, the transcript fallback is not
\* called when the primary source gave text, and is called exactly once, before
\* the lyrics are settled, when the primary gave nothing or raised.
C6_FallbackOrdering ==
    \A r \in Runs :
        LET lc == run[r].lyric_calls IN
        /\ lc.primary <= 1 /\ lc.fallback <= 1
        /\ At(r, "Fallback")
           => lc.primary = 1 /\ lc.primary_out \in {"none", "error"} /\ lc.fallback = 0
        /\ (At(r, "OpenLrc") \/ At(r, "WriteLrc"))
           => /\ lc.primary = 1
              /\ lc.primary_out = "text"
                 => lc.fallback = 0 /\ run[r].lyrics_text = <<"L">>
              /\ lc.primary_out \in {"none", "error"} => lc.fallback = 1
              /\ run[r].lyrics_text = <<>> => lc.fallback = 1

C6_Witness ==
    \E r1 \in Runs, r2 \in Runs :
        /\ At(r1, "WriteLrc") /\ run[r1].lyric_calls.primary_out = "text"
        /\ run[r1].lyric_calls.fallback = 0
        /\ At(r2, "WriteLrc") /\ run[r2].lyric_calls.primary_out = "error"
        /\ run[r2].lyric_calls.fallback = 1 /\ run[r2].lyrics_text = <<>>

\* C7: whatever the two lyric sources answer (text, nothing, an error), a
\* run whose resolve and download succeeded is never failed afterwards: it
\* ends with a 200 response and its lyric and metadata files written, and the
\* lyric text it writes is empty when neither source gave text.
C7_Step ==
    /\ \A r \in Runs :
          run'[r].pc = "done" /\ run'[r].fetched = "ok"
          => /\ run'[r].status = 200 /\ run'[r].escaped = "" /\ run'[r].error = ""
             /\ {"lrc", "json"} \subseteq run'[r].wrote
             /\ meta'[cache_id(r)].exists /\ lrc'[cache_id(r)].exists
    /\ \A r \in Runs :
          run[r].fetched = "ok" => run'[r].status \in {0, 200}
    /\ \A r \in Runs :
          At(r, "WriteLrc") /\ run'[r].pc = "OpenMeta"
          => lrc'[cache_id(r)].text =
                IF run[r].lyric_calls.primary_out = "text" THEN <<"L">>
                ELSE IF run[r].lyric_calls.fallback_out = "text" THEN <<"T">>
                ELSE <<>>

C7_LyricIsolation == [][C7_Step]_vars

C7_Witness ==
    \E r1 \in Runs, r2 \in Runs :
        /\ At(r1, "WriteLrc") /\ run[r1].lyric_calls.primary_out = "error"
        /\ run[r1].lyric_calls.fallback_out = "error"
        /\ Done(r2) /\ run[r2].fetched = "ok" /\ run[r2].status = 200
        /\ lrc[cache_id(r2)] = [exists |-> TRUE, text |-> <<>>]
        /\ JsonValid(meta[cache_id(r2)].text)

\* C8: a run that found the metadata file of its key present reads a
\* complete record from it, also while another run is writing that file.
C8_AtomicVisibility ==
    \A r \in Runs :
        /\ At(r, "LoadMeta") => JsonValid(meta[cache_id(r)].text)
        /\ run[r].escaped # "JSONDecodeError"

\* C9: a run interrupted after its download succeeded and before its
\* metadata write has created no metadata file: the file of a key exists only
\* when some run of the key got to the metadata write, and a later run is a
\* cache hit only then; otherwise it takes the miss path and calls the
\* resolver and the fetcher again.
Window == {"FetchLyrics", "Fallback", "OpenLrc", "WriteLrc", "OpenMeta"}

C9_CrashAtomicity ==
    /\ \A r \in Runs :
          run[r].pc \in Window => run[r].fetched = "ok" /\ ~Persisted(r)
    /\ \A c \in CacheIds :
          meta[c].exists => \E r \in Runs : Keyed(r) /\ cache_id(r) = c /\ Persisted(r)
    /\ \A r \in Runs :
          run[r].probe = "hit"
          => \E q \in Runs : q # r /\ SameKey(q, r) /\ Persisted(q)
    /\ \A r \in Runs :
          run[r].probe = "miss" /\ ~(run[r].pc = "Resolve")
          => run[r].calls.resolver = 1
    /\ \A r \in Runs :
          run[r].resolved = "found" /\ ~(run[r].pc = "FetchAudio") /\ run[r].escaped = ""
          => run[r].calls.fetcher = 1

C9_Witness ==
    \E r1 \in Runs, r2 \in Runs :
        /\ run[r1].interrupted /\ run[r1].pc \in Window
        /\ mp3[cache_id(r1)] = "full" /\ lrc[cache_id(r1)].exists
        /\ ~run[r2].interrupted /\ SameKey(r1, r2) /\ r1 < r2
        /\ run[r2].probe = "miss"
        /\ run[r2].calls = [resolver |-> 1, fetcher |-> 1]
        /\ ~meta[cache_id(r2)].exists

\* C10: a request whose song parameter is missing or empty is answered 400
\* at once: no key is derived, no cache file is probed, no external service
\* is called and the cache directory is left as it was.
C10_Step ==
    /\ \A r \in Runs :
          run'[r].pc # "idle" /\ MissingOrEmpty(run'[r].args)
          => /\ run'[r].pc = "done" /\ run'[r].status = 400
             /\ run'[r].error = "Missing song"
             /\ ~run'[r].keyed /\ run'[r].probe = ""
             /\ run'[r].calls = NoCalls /\ run'[r].wrote = {}
             /\ run'[r].data = <<>>
    /\ \A r \in Runs :
          run[r].pc = "idle" /\ run'[r].pc # "idle" /\ MissingOrEmpty(run'[r].args)
          => <<mp3, lrc, meta>>' = <<mp3, lrc, meta>>

C10_InvalidRequest == [][C10_Step]_vars

C10_Witness ==
    \E r1 \in Runs, r2 \in Runs :
        /\ Done(r1) /\ run[r1].status = 400 /\ "song" \notin DOMAIN run[r1].args
        /\ Done(r2) /\ run[r2].status = 400 /\ "song" \in DOMAIN run[r2].args

\* The normalized query as the specification words it: song, a space and the
\* artist, without the spaces at either end.
NonSpace(s) == { i \in 1..Len(s) : s[i] # " " }
Trim(s) ==
    IF NonSpace(s) = {} THEN <<>>
    ELSE SubSeq(s, CHOOSE i \in NonSpace(s) : \A j \in NonSpace(s) : i <= j,
                   CHOOSE i \in NonSpace(s) : \A j \in NonSpace(s) : i >= j)
Normalized(a) ==
    Trim(a["song"] \o <<" ">> \o (IF "artist" \in DOMAIN a THEN a["artist"] ELSE <<>>))

\* C11: two requests use the same key exactly when their normalized queries
\* trim(song + " " + artist) are equal, however the query is split into song
\* and artist; so a request is a cache hit exactly when an earlier request
\* with the same normalized query persisted its entry, and it is answered
\* from that entry.
C11_KeyDerivation ==
    /\ \A r1 \in Runs, r2 \in Runs :
          Keyed(r1) /\ Keyed(r2)
          => ((cache_id(r1) = cache_id(r2))
                <=> (Normalized(run[r1].args) = Normalized(run[r2].args)))
    /\ \A r \in Runs :
          Keyed(r)
          => ((run[r].probe = "hit")
                <=> \E q \in Runs :
                       /\ q < r /\ Persisted(q)
                       /\ Normalized(run[q].args) = Normalized(run[r].args))
    /\ \A q \in Runs, r \in Runs :
          ( /\ q < r /\ Persisted(q) /\ Keyed(r) /\ Done(r)
            /\ Normalized(run[q].args) = Normalized(run[r].args) )
          => /\ run[r].status = 200
             /\ run[r].data[1]["audio_url"] = run[q].data[1]["audio_url"]
             /\ run[r].data[1]["lyric_url"] = run[q].data[1]["lyric_url"]

C11_Witness ==
    \E r1 \in Runs, r2 \in Runs :
        /\ run[r1].args = [song |-> <<"a", " ", "b">>] /\ Persisted(r1)
        /\ run[r2].args = [song |-> <<"a">>, artist |-> <<"b">>]
        /\ run[r2].probe = "hit" /\ Done(r2) /\ run[r2].status = 200

\* The content type the specification gives for a file name.
ContentType(filename) ==
    CASE filename.ext = ".mp3" -> "audio/mpeg"
      [] filename.ext \in {".lrc", ".txt"} -> "text/plain; charset=utf-8"
      [] filename.ext = ".json" -> "application/json"
      [] OTHER -> "application/octet-stream"

Serving(r) == "filename" \in DOMAIN run[r].args

\* What is in the cache directory under a name, if anything.
Stored(filename) ==
    IF filename \in DOMAIN ForeignFiles THEN <<ForeignFiles[filename]>>
    ELSE IF filename.stem \notin CacheIds THEN <<>>
    ELSE CASE filename.ext = ".mp3" ->
                 IF mp3[filename.stem] = "absent" THEN <<>>
                 ELSE << <<"audio", mp3[filename.stem]>> >>
           [] filename.ext = ".lrc" ->
                 IF lrc[filename.stem].exists
                 THEN << <<"text", lrc[filename.stem].text>> >> ELSE <<>>
           [] filename.ext = ".json" ->
                 IF meta[filename.stem].exists
                 THEN << <<"json", meta[filename.stem].text>> >> ELSE <<>>
           [] OTHER -> <<>>

\* C12: a request for a file that exists in the cache directory is answered
\* 200 with the content type of its extension and then with the bytes of the
\* file; a request for a name that is no file is answered 404 "file not
\* found"; no step of a serving request changes a cache file.
C12_Step ==
    \A r \in Runs :
        (run'[r] # run[r] /\ "filename" \in DOMAIN run'[r].args)
        => LET filename == run'[r].args.filename IN
           /\ <<mp3, lrc, meta>>' = <<mp3, lrc, meta>>
           /\ run[r].pc = "idle"
              => IF Stored(filename) = <<>>
                 THEN /\ run'[r].pc = "done" /\ run'[r].status = 404
                      /\ run'[r].error = "file not found"
                      /\ run'[r].body = <<>>
                 ELSE /\ run'[r].pc # "done" /\ run'[r].status = 200
                      /\ run'[r].mimetype = ContentType(filename)
           /\ run[r].pc # "idle"
              => /\ run'[r].pc = "done" /\ run'[r].status = 200
                 /\ run'[r].mimetype = ContentType(filename)
                 /\ Stored(filename) # <<>>
                 /\ run'[r].body = Stored(filename)[1]

C12_StaticServing == [][C12_Step]_vars

C12_Witness ==
    \E r1 \in Runs, r2 \in Runs :
        /\ Keyed(r1) /\ Done(r1) /\ run[r1].status = 200 /\ Persisted(r1)
        /\ Serving(r2) /\ Done(r2) /\ run[r2].status = 200
        /\ run[r2].args.filename.ext = ".lrc"
        /\ run[r2].mimetype = "text/plain; charset=utf-8"
        /\ run[r2].body = <<"text", lrc[cache_id(r1)].text>>
        /\ run[r2].body[2] # <<>>

\* C13: once the metadata of a key has been written, no later step rewrites
\* or truncates the metadata file, the lyric file or the audio file of the
\* key, a second run of the same key in flight included.
C13_Step ==
    \A c \in CacheIds :
        JsonValid(meta[c].text)
        => /\ meta'[c] = meta[c]
           /\ lrc'[c] = lrc[c]
           /\ mp3'[c] = mp3[c]

C13_Immutable == [][C13_Step]_vars

\* C14: whenever the metadata file of a key exists, the audio of the key was
\* fetched completely and the lyric file of the key exists and is written
\* out; and a run writes its lyric file before it creates its metadata file.
C14_CompletedEntry ==
    /\ \A c \in CacheIds :
          meta[c].exists
          => /\ mp3[c] = "full"
             /\ lrc[c].exists
             /\ \A r \in Runs : ~(Keyed(r) /\ cache_id(r) = c /\ At(r, "WriteLrc"))
    /\ \A r \in Runs :
          "json" \in run[r].wrote
          => "lrc" \in run[r].wrote /\ run[r].pc \in {"WriteMeta", "done"}

\* C15: nothing but an existing metadata file keeps a request off the miss
\* path: a run is a hit only when some run of its key created the metadata
\* file, a miss run is never held up by another run of its key, and every
\* miss run calls the resolver and the fetcher itself and writes the three
\* files itself, however many runs of the key are in flight.
C15_DuplicateFetch ==
    \A r \in Runs :
        /\ (Keyed(r) /\ run[r].probe = "hit")
           => \E q \in Runs : q # r /\ SameKey(q, r) /\ Persisted(q)
        /\ (Keyed(r) /\ run[r].probe = "miss")
           => /\ run[r].pc # "Resolve" => run[r].calls.resolver = 1
              /\ (run[r].resolved = "found" /\ run[r].pc # "FetchAudio")
                 => \/ run[r].calls.fetcher = 1
                    \/ run[r].escaped = "FileNotFoundError"
              /\ (Done(r) /\ run[r].status = 200)
                 => run[r].wrote = {"mp3", "lrc", "json"}
              /\ At(r, "Resolve") => ENABLED Resolve(r)
              /\ At(r, "FetchAudio") => ENABLED FetchAudio(r)
              /\ At(r, "OpenLrc") => ENABLED OpenLrc(r)
              /\ At(r, "OpenMeta") => ENABLED OpenMeta(r)

C15_Witness ==
    \E r1 \in Runs, r2 \in Runs :
        /\ r1 # r2 /\ Keyed(r1) /\ Keyed(r2) /\ SameKey(r1, r2)
        /\ run[r1].probe = "miss" /\ run[r2].probe = "miss"
        /\ Done(r1) /\ run[r1].status = 200 /\ Done(r2) /\ run[r2].status = 200
        /\ run[r1].calls = [resolver |-> 1, fetcher |-> 1]
        /\ run[r2].calls = [resolver |-> 1, fetcher |-> 1]
        /\ run[r1].wrote = {"mp3", "lrc", "json"}
        /\ run[r2].wrote = {"mp3", "lrc", "json"}

\* A run that failed: the resolver found nothing or the download failed.
FailedRun(r) ==
    /\ Keyed(r) /\ Done(r)
    /\ run[r].resolved = "empty" \/ run[r].fetched = "failed"

\* C16: a request that comes after failed runs of its key only (the leftover
\* audio of a failed download possibly in place) finds no entry, takes the
\* miss path and calls the resolver again; when its resolver call and its
\* download succeed it persists the entry and answers 200. No run calls the
\* resolver, the fetcher or a lyric source more than once.
C16_Retryable ==
    \A r \in Runs :
        /\ run[r].calls.resolver <= 1 /\ run[r].calls.fetcher <= 1
        /\ run[r].lyric_calls.primary <= 1 /\ run[r].lyric_calls.fallback <= 1
        /\ ( /\ Keyed(r)
             /\ \A q \in Runs : (q # r /\ SameKey(q, r)) => (q < r /\ FailedRun(q)) )
           => /\ run[r].probe = "miss"
              /\ ~meta[cache_id(r)].exists \/ Persisted(r)
              /\ run[r].pc # "Resolve" => run[r].calls.resolver = 1
              /\ (run[r].fetched = "ok" /\ Done(r) /\ ~run[r].interrupted)
                 => /\ run[r].status = 200 /\ Persisted(r)
                    /\ JsonValid(meta[cache_id(r)].text)

C16_Witness ==
    \E r1 \in Runs, r2 \in Runs :
        /\ r1 < r2 /\ SameKey(r1, r2)
        /\ FailedRun(r1) /\ run[r1].fetched = "failed" /\ "mp3" \in run[r1].wrote
        /\ run[r2].probe = "miss" /\ run[r2].calls = [resolver |-> 1, fetcher |-> 1]
        /\ Done(r2) /\ run[r2].status = 200 /\ Persisted(r2)
        /\ JsonValid(meta[cache_id(r2)].text)

\* C17: within a run the stages come in the order cache probe, resolver,
\* audio download, lyric sources, lyric file, metadata file, response: the
\* resolver is called only after a miss, the fetcher only after the resolver
\* returned a video, a lyric source only after the download succeeded (the
\* fallback only after the primary source), and neither the lyric file nor
\* the metadata file is written before the lyric stage is over; the lyric
\* file comes before the metadata file and the 200 response after both.
C17_StageOrder ==
    \A r \in Runs :
        Keyed(r)
        => /\ run[r].probe \in {"hit", "miss"}
           /\ run[r].calls.resolver = 1 => run[r].probe = "miss"
           /\ run[r].pc = "Resolve" => run[r].probe = "miss" /\ run[r].calls.resolver = 0
           /\ (run[r].calls.fetcher = 1 \/ run[r].pc = "FetchAudio")
              => run[r].resolved = "found" /\ run[r].calls.resolver = 1
           /\ run[r].pc = "FetchAudio" => run[r].calls.fetcher = 0
           /\ ( \/ run[r].lyric_calls.primary = 1
                \/ run[r].pc \in {"FetchLyrics", "Fallback", "OpenLrc", "WriteLrc",
                                  "OpenMeta", "WriteMeta"} )
              => run[r].fetched = "ok" /\ run[r].calls.fetcher = 1
           /\ run[r].lyric_calls.fallback = 1
              => /\ run[r].lyric_calls.primary = 1
                 /\ run[r].lyric_calls.primary_out \in {"none", "error"}
           /\ run[r].pc \in {"FetchLyrics", "Fallback", "OpenLrc"}
              => run[r].wrote = {"mp3"}
           /\ At(r, "FetchLyrics") => run[r].lyric_calls.primary = 0
           /\ (At(r, "Fallback") \/ At(r, "OpenLrc")) => run[r].lyric_calls.primary = 1
           /\ "lrc" \in run[r].wrote
              => /\ run[r].fetched = "ok"
                 /\ run[r].pc \in {"WriteLrc", "OpenMeta", "WriteMeta", "done"}
           /\ "json" \in run[r].wrote
              => "lrc" \in run[r].wrote /\ run[r].pc \in {"WriteMeta", "done"}
           /\ (Done(r) /\ run[r].status = 200 /\ run[r].probe = "miss")
              => run[r].wrote = {"mp3", "lrc", "json"}
           /\ run[r].probe = "hit" => run[r].calls = NoCalls /\ run[r].wrote = {}

C17_Witness ==
    \E r \in Runs :
        /\ Keyed(r) /\ run[r].probe = "miss" /\ run[r].resolved = "found"
        /\ run[r].fetched = "ok" /\ run[r].calls = [resolver |-> 1, fetcher |-> 1]
        /\ run[r].wrote = {"mp3", "lrc", "json"}
        /\ Done(r) /\ run[r].status = 200

\* The key of a request as the specification derives it.
KeyOf(rec) == get_cache_id(Normalized(rec.args))

\* C18: a run reads and writes the three files of its own key only: a step
\* that changes a file of a key is a step of a run of that key, the cache
\* probe of a run answers for the metadata file of its own key, and a 200
\* response names the files of its own key, whatever the other runs do.
C18_Step ==
    /\ \A c \in CacheIds :
          (mp3'[c] # mp3[c] \/ lrc'[c] # lrc[c] \/ meta'[c] # meta[c])
          => \E r \in Runs : run'[r] # run[r] /\ run[r].keyed /\ KeyOf(run[r]) = c
    /\ \A r \in Runs :
          (run'[r] # run[r] /\ run'[r].keyed)
          => /\ run[r].pc = "idle"
                => (run'[r].probe = "hit" <=> meta[KeyOf(run'[r])].exists)
             /\ (run'[r].pc = "done" /\ run'[r].status = 200)
                => /\ run'[r].data[1]["audio_url"]
                        = <<"/", CACHE_DIR, "/", KeyOf(run'[r]), ".mp3">>
                   /\ run'[r].data[1]["lyric_url"]
                        = <<"/", CACHE_DIR, "/", KeyOf(run'[r]), ".lrc">>

C18_NoCrossKey == [][C18_Step]_vars

C18_Witness ==
    \E r1 \in Runs, r2 \in Runs :
        /\ Keyed(r1) /\ Keyed(r2) /\ KeyOf(run[r1]) # KeyOf(run[r2])
        /\ run[r1].probe = "miss" /\ run[r2].probe = "miss"
        /\ Done(r1) /\ run[r1].status = 200 /\ Done(r2) /\ run[r2].fetched = "failed"
        /\ JsonValid(meta[KeyOf(run[r1])].text) /\ mp3[KeyOf(run[r1])] = "full"
        /\ ~meta[KeyOf(run[r2])].exists /\ mp3[KeyOf(run[r2])] = "partial"

\* C19: the set of keys that have a metadata file only grows, no step makes
\* a written metadata file unreadable, and a request that arrives after a
\* request of its key was answered 200 takes the cache-hit path.
C19_Step ==
    /\ \A c \in CacheIds :
          /\ meta[c].exists => meta'[c].exists
          /\ JsonValid(meta[c].text) => JsonValid(meta'[c].text)
    /\ \A r \in Runs :
          ( /\ run[r].pc = "idle" /\ run'[r].keyed
            /\ \E q \in Runs : /\ Keyed(q) /\ Done(q) /\ run[q].status = 200
                               /\ KeyOf(run[q]) = KeyOf(run'[r]) )
          => run'[r].probe = "hit"

C19_NoEviction == [][C19_Step]_vars

\* The terminal outcomes of a run: the response of a hit or of a persisted
\* miss, a failure of the resolver stage, a failure of the download stage.
Outcome(r) ==
    IF run[r].status = 200 /\ run[r].escaped = "" THEN "Respond"
    ELSE IF run[r].probe = "miss" /\ run[r].resolved \in {"empty", "raised"}
         THEN "Failed(resolve)"
    ELSE IF /\ run[r].probe = "miss" /\ run[r].resolved = "found"
            /\ \/ run[r].fetched = "failed"
               \/ run[r].fetched = "" /\ run[r].escaped = "FileNotFoundError"
         THEN "Failed(fetch_audio)"
    ELSE "other"

\* C20: as long as the calls of a run return, every run that has started
\* ends; a run that has ended stays as it ended; and a run with a key ends
\* as a response, as a failure of the resolver stage or as a failure of the
\* download stage, never as a failure of another stage.
C20_Termination ==
    /\ \A r \in Runs : (run[r].pc # "idle") ~> Done(r)
    /\ [][\A r \in Runs : Done(r) => run'[r] = run[r]]_vars
    /\ [](\A r \in Runs : (Keyed(r) /\ Done(r)) => Outcome(r) # "other")

====
